---- MODULE Spec2Model ----
(***************************************************************************)
(* KnightDAG: the graph store of migrations/20250528000000_initial.sql     *)
(* (tables nodes and edges, function check_dag_cycle) and the polling      *)
(* visualisation client (frontend/src/types/dag.ts, DagVisualization.tsx). *)
(***************************************************************************)
EXTENDS Integers, Sequences, FiniteSets, TLC

\* ------------------------------------------------------------------ bounds
\* Number of distinct node ids (nodes.id is TEXT; only equality matters).
MaxNodes == 3
\* Largest number of rows of the edges table the model explores.
MaxEdges == 3

NodeIds == 1..MaxNodes
AllEdges == NodeIds \X NodeIds
EdgeSets == {E \in SUBSET AllEdges : Cardinality(E) <= MaxEdges}

VARIABLES
    nodes,      \* table nodes: the set of primary keys id
    edges,      \* table edges: the set of primary keys <<from_node, to_node>>
    last,       \* the last statement a caller ran and its outcome
    ins,        \* the concurrent inserters: position, edge, result of the check
    sEdges,     \* check_dag_cycle, stepwise: the edges table it reads
    sFrom,      \*   p_from_node
    sTo,        \*   p_to_node
    work,       \*   the working table of the recursive query
    rows,       \*   search_graph so far
    spc,        \*   "search" | "done"
    found,      \*   found_cycle
    blocks,     \* convertToGraphData: the argument
    converted,  \*   the value returned
    cpc,        \*   "input" | "done"
    graphData,  \* DagVisualization: useState graphData
    loading,    \*   useState loading
    error,      \*   useState error
    phase,      \*   "rendered" | "mounted" | "unmounted"
    polls,      \*   the fetchData calls, in the order they were started
    server,     \*   how many blocks the /blocks endpoint holds
    lastCompleted, \* history: outcome of the fetchData call that completed last
    shown       \*   history: the fetchData call whose result graphData holds

storeVars == <<nodes, edges, last>>
searchVars == <<sEdges, sFrom, sTo, work, rows, spc, found>>
convertVars == <<blocks, converted, cpc>>
viewVars == <<graphData, loading, error, phase, polls, server, lastCompleted, shown>>
clientVars == <<convertVars, viewVars>>
vars == <<storeVars, ins, searchVars, convertVars, viewVars>>

\* ------------------------------------------------- graph theory (reference)
Succ(E, S) == {e[2] : e \in {x \in E : x[1] \in S}}

RECURSIVE ReachFrom(_, _)
ReachFrom(E, S) ==
    LET T == S \cup Succ(E, S) IN IF T = S THEN S ELSE ReachFrom(E, T)

\* The nodes reachable from n along one or more edges of E.
Descendants(E, n) == ReachFrom(E, Succ(E, {n}))

\* No node is its own transitive ancestor (a self-loop is a cycle).
Acyclic(E) == \A e \in E : e[1] \notin Descendants(E, e[1])

\* ------------------------------------------------------- check_dag_cycle
\* x = ANY(path)
AnyOf(x, path) == \E i \in 1..Len(path) : path[i] = x

\* The non-recursive term: the edges leaving p_to_node.
BaseRows(E, c) ==
    {[from_node |-> e[1], to_node |-> e[2], path |-> <<e[1]>>, cycle |-> FALSE] :
        e \in {x \in E : x[1] = c}}

\* RecursiveRows with the cycle column never set (e.to_node = ANY(path) lost).
RecursiveRowsUnflagged(E, W) ==
    {[from_node |-> x[1][1], to_node |-> x[1][2],
      path |-> Append(x[2].path, x[1][1]),
      cycle |-> FALSE] :
        x \in {y \in E \X W : y[1][1] = y[2].to_node /\ ~y[2].cycle}}

\* The recursive term, evaluated on the working table W.
RecursiveRows(E, W) ==
    {[from_node |-> x[1][1], to_node |-> x[1][2],
      path |-> Append(x[2].path, x[1][1]),
      cycle |-> AnyOf(x[1][2], x[2].path)] :
        x \in {y \in E \X W : y[1][1] = y[2].to_node /\ ~y[2].cycle}}

RECURSIVE SearchGraph(_, _, _)
SearchGraph(E, W, acc) ==
    IF W = {} THEN acc
    ELSE LET N == RecursiveRows(E, W) IN SearchGraph(E, N, acc \cup N)

\* SELECT EXISTS (SELECT 1 FROM search_graph WHERE cycle OR to_node = p_from_node)
FoundCycle(R, p) == \E r \in R : r.cycle \/ r.to_node = p

check_dag_cycle(E, p, c) ==
    FoundCycle(SearchGraph(E, BaseRows(E, c), BaseRows(E, c)), p)

\* ----------------------------------------------------------------- store
\* args: the ids the statement names.
Stmt(op, args, res) == [op |-> op, args |-> args, result |-> res]

NoStmt == Stmt("none", <<>>, "ok")

\* INSERT INTO edges (from_node, to_node, ...): the outcome of the constraints.
EdgeInsertResult(N, E, f, t) ==
    IF <<f, t>> \in E THEN "unique_violation"
    ELSE IF f \notin N \/ t \notin N THEN "foreign_key_violation"
    ELSE "ok"

\* INSERT INTO nodes (id, ...)
InsertNode(n) ==
    /\ IF n \in nodes
       THEN /\ last' = Stmt("insert_node", <<n>>, "unique_violation")
            /\ UNCHANGED nodes
       ELSE /\ nodes' = nodes \cup {n}
            /\ last' = Stmt("insert_node", <<n>>, "ok")
    /\ UNCHANGED <<edges, ins, searchVars, clientVars>>

\* INSERT INTO edges, written directly by a caller.
InsertEdge(f, t) ==
    /\ LET res == EdgeInsertResult(nodes, edges, f, t) IN
         /\ res = "ok" => Cardinality(edges) < MaxEdges
         /\ edges' = IF res = "ok" THEN edges \cup {<<f, t>>} ELSE edges
         /\ last' = Stmt("insert_edge", <<f, t>>, res)
    /\ UNCHANGED <<nodes, ins, searchVars, clientVars>>

\* DeleteNode with the cascade only on from_node.
DeleteNodeFromOnly(n) ==
    /\ nodes' = nodes \ {n}
    /\ edges' = {e \in edges : e[1] # n}
    /\ last' = Stmt("delete_node", <<n>>, IF n \in nodes THEN "ok" ELSE "no_rows")
    /\ UNCHANGED <<ins, searchVars, clientVars>>

\* DELETE FROM nodes WHERE id = n, with ON DELETE CASCADE on both edge columns.
DeleteNode(n) ==
    /\ nodes' = nodes \ {n}
    /\ edges' = {e \in edges : e[1] # n /\ e[2] # n}
    /\ last' = Stmt("delete_node", <<n>>, IF n \in nodes THEN "ok" ELSE "no_rows")
    /\ UNCHANGED <<ins, searchVars, clientVars>>

\* SELECT check_dag_cycle(p, c)
CallCheck(p, c) ==
    /\ last' = Stmt("check_dag_cycle", <<p, c>>,
                    IF check_dag_cycle(edges, p, c) THEN "true" ELSE "false")
    /\ UNCHANGED <<nodes, edges, ins, searchVars, clientVars>>

\* ------------------------------------------- callers of check_dag_cycle
\* A caller adds an edge in two statements, SELECT check_dag_cycle(f, t) and,
\* when that said false, INSERT INTO edges; other sessions run in between.
Inserters == {1, 2}

\* edge: <<from_node, to_node>> once chosen; found: what check_dag_cycle said.
Inserter(pc, e, fc, res) == [pc |-> pc, edge |-> e, found |-> fc, result |-> res]

IdleInserter == Inserter("idle", <<>>, FALSE, "none")

\* A caller decides to add the edge f -> t.
Begin(i, f, t) ==
    /\ ins[i].pc = "idle"
    /\ ins' = [ins EXCEPT ![i] = Inserter("check", <<f, t>>, FALSE, "none")]
    /\ UNCHANGED <<storeVars, searchVars, clientVars>>

\* SELECT check_dag_cycle(f, t), on the edges committed at that moment.
Check(i) ==
    /\ ins[i].pc = "check"
    /\ ins' = [ins EXCEPT
                 ![i].pc = "write",
                 ![i].found = check_dag_cycle(edges, ins[i].edge[1], ins[i].edge[2])]
    /\ UNCHANGED <<storeVars, searchVars, clientVars>>

\* INSERT INTO edges when the check said false, CycleDetected otherwise.
Write(i) ==
    /\ ins[i].pc = "write"
    /\ LET res == IF ins[i].found THEN "CycleDetected"
                  ELSE EdgeInsertResult(nodes, edges, ins[i].edge[1], ins[i].edge[2]) IN
         /\ res = "ok" => Cardinality(edges) < MaxEdges
         /\ edges' = IF res = "ok" THEN edges \cup {ins[i].edge} ELSE edges
         /\ ins' = [ins EXCEPT ![i] = Inserter("done", ins[i].edge, FALSE, res)]
    /\ UNCHANGED <<nodes, last, searchVars, clientVars>>

\* The caller has its answer and is free to add another edge.
Return(i) ==
    /\ ins[i].pc = "done"
    /\ ins' = [ins EXCEPT ![i] = IdleInserter]
    /\ UNCHANGED <<storeVars, searchVars, clientVars>>

\* ----------------------------------------- check_dag_cycle, step by step
\* Longest path the stepwise search is followed to.
MaxPath == 2 * MaxNodes + 2

\* One iteration of WITH RECURSIVE: the recursive term on the working table.
SearchStep ==
    /\ spc = "search"
    /\ work # {}
    /\ \A r \in work : Len(r.path) < MaxPath
    /\ work' = RecursiveRows(sEdges, work)
    /\ rows' = rows \cup work'
    /\ UNCHANGED <<sEdges, sFrom, sTo, spc, found, storeVars, ins, clientVars>>

\* The working table is empty: SELECT EXISTS (...) INTO found_cycle; RETURN.
SearchFinish ==
    /\ spc = "search"
    /\ work = {}
    /\ found' = FoundCycle(rows, sFrom)
    /\ spc' = "done"
    /\ UNCHANGED <<sEdges, sFrom, sTo, work, rows, storeVars, ins, clientVars>>

\* ---------------------------------------------------- convertToGraphData
\* Largest number of blocks in one response.
MaxBlocks == 2

BlockIds == {"b1", "b2"}

\* Values of (height, confidence, in_k_cluster, network_delay).
LowProfile ==
    [height |-> 0, confidence |-> 40, in_k_cluster |-> FALSE, network_delay |-> 7]
HighProfile ==
    [height |-> 1, confidence |-> 85, in_k_cluster |-> TRUE, network_delay |-> 12]
Profiles == {LowProfile, HighProfile}

\* Values of Block.parents: an array, so order and repetition are kept.
ParentLists == {<<>>, <<"b1">>, <<"b2">>, <<"b1", "b2">>, <<"b2", "b2">>}

Block(id, ps, pr) ==
    [id |-> id, hash |-> <<"hash", id>>, parents |-> ps, timestamp |-> "t",
     height |-> pr.height, confidence |-> pr.confidence,
     in_k_cluster |-> pr.in_k_cluster, network_delay |-> pr.network_delay]

BlockValues == {Block(id, ps, pr) : id \in BlockIds, ps \in ParentLists, pr \in Profiles}

BlockLists == UNION {[1..n -> BlockValues] : n \in 0..MaxBlocks}

\* blocks.map(block => ({id, height, confidence, in_k_cluster, network_delay}))
GraphNodeOf(b) ==
    [id |-> b.id, height |-> b.height, confidence |-> b.confidence,
     in_k_cluster |-> b.in_k_cluster, network_delay |-> b.network_delay]

\* GraphLinkOf with source and target exchanged.
GraphLinkOfReversed(parentId, b) == [source |-> b.id, target |-> parentId]

\* links.push({source: parentId, target: block.id})
GraphLinkOf(parentId, b) == [source |-> parentId, target |-> b.id]

\* block.parents.forEach(parentId => links.push(...))
ParentLinks(b) == [j \in 1..Len(b.parents) |-> GraphLinkOf(b.parents[j], b)]

\* blocks.forEach(block => ...), from block i on
RECURSIVE LinksFrom(_, _)
LinksFrom(bs, i) ==
    IF i > Len(bs) THEN <<>> ELSE ParentLinks(bs[i]) \o LinksFrom(bs, i + 1)

convertToGraphData(bs) ==
    [nodes |-> [i \in 1..Len(bs) |-> GraphNodeOf(bs[i])], links |-> LinksFrom(bs, 1)]

\* useState<GraphData>({ nodes: [], links: [] })
EmptyGraph == [nodes |-> <<>>, links |-> <<>>]

Convert ==
    /\ cpc = "input"
    /\ converted' = convertToGraphData(blocks)
    /\ cpc' = "done"
    /\ UNCHANGED <<blocks, storeVars, ins, searchVars, viewVars>>

\* ------------------------------------------------------ DagVisualization
\* Number of fetchData calls followed (the first one and the interval's).
MaxPolls == 3

\* What GET /blocks holds as the DAG grows: a prefix of this list.
Chain == <<Block("b1", <<>>, HighProfile), Block("b2", <<"b1">>, LowProfile)>>

ServerBlocks(v) == SubSeq(Chain, 1, v)

PollIds == 1..MaxPolls

\* st: "idle" | "sent" | "served" | "done"; ok, data: the response once served.
Poll(st, ok, data) == [st |-> st, ok |-> ok, data |-> data]

NoError == "null"
FetchError == "Failed to fetch DAG data"

\* fetchData up to its await: setLoading(true); dagApi.getBlocks() is sent.
StartFetch(i) ==
    /\ polls[i].st = "idle"
    /\ \A k \in PollIds : k < i => polls[k].st # "idle"
    /\ polls' = [polls EXCEPT ![i] = Poll("sent", FALSE, <<>>)]
    /\ loading' = TRUE

\* useEffect: fetchData(); setInterval(fetchData, 5000)
Mount ==
    /\ phase = "rendered"
    /\ phase' = "mounted"
    /\ StartFetch(1)
    /\ UNCHANGED <<graphData, error, server, lastCompleted, shown,
                   storeVars, ins, searchVars, convertVars>>

\* The interval fires: fetchData again, whatever the earlier calls are doing.
Tick(i) ==
    /\ phase = "mounted"
    /\ StartFetch(i)
    /\ UNCHANGED <<graphData, error, phase, server, lastCompleted, shown,
                   storeVars, ins, searchVars, convertVars>>

\* useEffect's cleanup: clearInterval(interval)
Unmount ==
    /\ phase = "mounted"
    /\ phase' = "unmounted"
    /\ UNCHANGED <<graphData, loading, error, polls, server, lastCompleted, shown,
                   storeVars, ins, searchVars, convertVars>>

\* The backend commits another block.
ServerGrows ==
    /\ server < Len(Chain)
    /\ server' = server + 1
    /\ UNCHANGED <<graphData, loading, error, phase, polls, lastCompleted, shown,
                   storeVars, ins, searchVars, convertVars>>

\* The backend answers request i from what it holds now, or the request fails.
Serve(i, ok) ==
    /\ polls[i].st = "sent"
    /\ polls' = [polls EXCEPT
                   ![i] = Poll("served", ok, IF ok THEN ServerBlocks(server) ELSE <<>>)]
    /\ UNCHANGED <<graphData, loading, error, phase, server, lastCompleted, shown,
                   storeVars, ins, searchVars, convertVars>>

\* try: setGraphData(convertToGraphData(blocks)); setError(null)
OnSuccess(i) ==
    /\ graphData' = convertToGraphData(polls[i].data)
    /\ error' = NoError
    /\ lastCompleted' = "ok"
    /\ shown' = i

\* OnFailure that also resets graphData to its initial value.
OnFailureClears(i) ==
    /\ error' = FetchError
    /\ lastCompleted' = "fail"
    /\ graphData' = [nodes |-> <<>>, links |-> <<>>]
    /\ UNCHANGED shown

\* catch: setError('Failed to fetch DAG data')
OnFailure(i) ==
    /\ error' = FetchError
    /\ lastCompleted' = "fail"
    /\ UNCHANGED <<graphData, shown>>

\* fetchData after its await, run to its end: try or catch, then finally.
\* Once unmounted the component has no state left to set.
Deliver(i) ==
    /\ polls[i].st = "served"
    /\ polls' = [polls EXCEPT ![i] = Poll("done", FALSE, <<>>)]
    /\ IF phase = "mounted"
       THEN /\ IF polls[i].ok THEN OnSuccess(i) ELSE OnFailure(i)
            /\ loading' = FALSE
       ELSE UNCHANGED <<graphData, loading, error, lastCompleted, shown>>
    /\ UNCHANGED <<phase, server, storeVars, ins, searchVars, convertVars>>

\* ------------------------------------------------------- specifications
StoreInit == nodes = {} /\ edges = {} /\ last = NoStmt

InsInit == ins = [i \in Inserters |-> IdleInserter]

SearchOff ==
    /\ sEdges = {} /\ sFrom = 1 /\ sTo = 1
    /\ work = {} /\ rows = {} /\ spc = "off" /\ found = FALSE

ConvertOff == blocks = <<>> /\ converted = EmptyGraph /\ cpc = "off"

ViewInit ==
    /\ graphData = EmptyGraph
    /\ loading = TRUE
    /\ error = NoError
    /\ phase = "rendered"
    /\ polls = [i \in PollIds |-> Poll("idle", FALSE, <<>>)]
    /\ server = 0
    /\ lastCompleted = "none"
    /\ shown = 0

\* The store under any caller: every statement the schema accepts.
Init == StoreInit /\ InsInit /\ SearchOff /\ ConvertOff /\ ViewInit

Next ==
    \/ \E n \in NodeIds : InsertNode(n)
    \/ \E f, t \in NodeIds : InsertEdge(f, t)
    \/ \E n \in NodeIds : DeleteNode(n)
    \/ \E p, c \in NodeIds : CallCheck(p, c)

Spec == Init /\ [][Next]_vars

\* The store under callers that write edges only through the cycle check,
\* each in two statements, interleaved in any order.
NextGuarded ==
    \/ \E n \in NodeIds : InsertNode(n)
    \/ \E i \in Inserters, f, t \in NodeIds : Begin(i, f, t)
    \/ \E i \in Inserters : Check(i)
    \/ \E i \in Inserters : Write(i)
    \/ \E i \in Inserters : Return(i)

SpecGuarded == Init /\ [][NextGuarded]_vars

\* check_dag_cycle on every edges table and every pair of arguments.
InitSearch ==
    /\ StoreInit /\ InsInit /\ ConvertOff /\ ViewInit
    /\ sEdges \in EdgeSets
    /\ sFrom \in NodeIds
    /\ sTo \in NodeIds
    /\ work = BaseRows(sEdges, sTo)
    /\ rows = BaseRows(sEdges, sTo)
    /\ spc = "search"
    /\ found = FALSE

NextSearch == SearchStep \/ SearchFinish

SpecSearch ==
    InitSearch /\ [][NextSearch]_vars /\ WF_vars(SearchStep) /\ WF_vars(SearchFinish)

\* convertToGraphData on every list of blocks.
InitConvert ==
    /\ StoreInit /\ InsInit /\ SearchOff /\ ViewInit
    /\ blocks \in BlockLists
    /\ converted = EmptyGraph
    /\ cpc = "input"

NextConvert == Convert

SpecConvert == InitConvert /\ [][NextConvert]_vars

\* The mounted component polling a backend whose DAG grows.
NextPoll ==
    \/ Mount
    \/ \E i \in PollIds : Tick(i)
    \/ Unmount
    \/ ServerGrows
    \/ \E i \in PollIds, ok \in BOOLEAN : Serve(i, ok)
    \/ \E i \in PollIds : Deliver(i)

SpecPoll == Init /\ [][NextPoll]_vars

\* ----------------------------------------------------------------- claims

\* C1: after node insertions and edge insertions that each passed
\* check_dag_cycle(from, to) = false, the edges relation contains no directed
\* cycle, a single edge from a node to itself included.
GuardedEdgesAcyclic == Acyclic(edges)

\* C2: on an acyclic edges table, check_dag_cycle(p, c) is true exactly when
\* adding the edge p -> c would create a directed cycle.
CheckDecidesCycle ==
    (spc = "done" /\ Acyclic(sEdges)) =>
        (found <=> ~Acyclic(sEdges \cup {<<sFrom, sTo>>}))

\* C3: when two concurrent inserters add the edges a -> b and b -> a (a # b)
\* and neither fails on a key constraint, exactly one is committed and the
\* other is rejected with CycleDetected, in every interleaving.
JointCycleOneWins ==
    (/\ \A i \in Inserters : ins[i].pc = "done"
     /\ \A i \in Inserters : ins[i].result \in {"ok", "CycleDetected"}
     /\ ins[1].edge = <<ins[2].edge[2], ins[2].edge[1]>>
     /\ ins[1].edge[1] # ins[1].edge[2])
    => {ins[i].result : i \in Inserters} = {"ok", "CycleDetected"}

\* C4: no statement a caller runs against the schema, a direct INSERT INTO
\* edges included, takes the store from an acyclic edges relation to one
\* with a directed cycle.
DirectWritesKeepAcyclic == [][Acyclic(edges) => Acyclic(edges')]_vars

\* C5: both endpoints of every edge are ids present in nodes; an edge
\* insertion naming an absent node is rejected and writes nothing; deleting
\* a node removes that node and exactly the edges that have it as from_node
\* or to_node.
RefIntegrity ==
    /\ [](\A e \in edges : e[1] \in nodes /\ e[2] \in nodes)
    /\ [][/\ (/\ last'.op = "insert_edge"
               /\ \E k \in 1..2 : last'.args[k] \notin nodes)
              => (last'.result # "ok" /\ edges' = edges /\ nodes' = nodes)
          /\ last'.op = "delete_node"
              => /\ nodes' = nodes \ {last'.args[1]}
                 /\ edges \ edges' =
                        {e \in edges : last'.args[1] \in {e[1], e[2]}}
                 /\ edges' \subseteq edges]_vars

\* A node was deleted and edges of other nodes are still there.
RefIntegrityWitness ==
    /\ last.op = "delete_node"
    /\ last.result = "ok"
    /\ edges # {}

\* No node stands at two positions of the path that are not next to each other.
NoFarRepeat(path) ==
    \A i, j \in 1..Len(path) : j > i + 1 => path[i] # path[j]

\* The nodes a row's walk went through, its last edge's target included.
Walk(r) == Append(r.path, r.to_node)

\* The walk came to a node it had been at before.
Revisits(r) == \E i, j \in 1..Len(Walk(r)) : i < j /\ Walk(r)[i] = Walk(r)[j]

\* The walk's last edge led to a node the walk had left before.
CameBack(r) == \E i \in 1..(Len(r.path) - 1) : r.path[i] = r.to_node

\* Some row of the search goes on from row r.
Extended(r) == \E q \in rows : q.path = Walk(r)

\* The nodes the edges of E touch.
NodesOf(E) == {e[1] : e \in E} \cup {e[2] : e \in E}

\* n + n^2 + ... + n^k
RECURSIVE SumOfPowers(_, _)
SumOfPowers(n, k) == IF k = 0 THEN 0 ELSE n * (1 + SumOfPowers(n, k - 1))

\* The walks of at most n + 1 edges over a table of n edges.
WalkBound(n) == SumOfPowers(n, n + 1)

RECURSIVE Offset(_, _)
Offset(bs, i) == IF i <= 1 THEN 0 ELSE Offset(bs, i - 1) + Len(bs[i - 1].parents)

\* C8: convertToGraphData returns one node per block, in order, with the
\* block's id, height, confidence, in_k_cluster and network_delay, and one
\* link per parent entry of each block, source = the parent id and target =
\* the block id; the number of links is the sum of the parent counts.
ConvertCorrect ==
    cpc = "done" =>
        /\ Len(converted.nodes) = Len(blocks)
        /\ \A i \in 1..Len(blocks) :
              /\ converted.nodes[i].id = blocks[i].id
              /\ converted.nodes[i].height = blocks[i].height
              /\ converted.nodes[i].confidence = blocks[i].confidence
              /\ converted.nodes[i].in_k_cluster = blocks[i].in_k_cluster
              /\ converted.nodes[i].network_delay = blocks[i].network_delay
              /\ \A j \in 1..Len(blocks[i].parents) :
                    /\ converted.links[Offset(blocks, i) + j].source = blocks[i].parents[j]
                    /\ converted.links[Offset(blocks, i) + j].target = blocks[i].id
        /\ Len(converted.links) = Offset(blocks, Len(blocks) + 1)

\* A block without parents followed by a block with two different parents.
ConvertCorrectWitness ==
    /\ cpc = "done"
    /\ Len(blocks) = 2
    /\ blocks[1].parents = <<>>
    /\ blocks[2].parents = <<"b1", "b2">>
    /\ blocks[1].height # blocks[2].height
    /\ Len(converted.links) = 2

\* C9: a poll that fails leaves graphData unchanged and sets error; a poll
\* that succeeds replaces graphData by the converted response and clears
\* error; either way loading is false afterwards, and error is set exactly
\* when the poll that completed last failed.
PollOutcome ==
    /\ [](error # NoError <=> lastCompleted = "fail")
    /\ [][\A i \in PollIds :
            (polls[i].st = "served" /\ polls'[i].st = "done" /\ phase = "mounted")
            => /\ loading' = FALSE
               /\ IF polls[i].ok
                  THEN /\ graphData' = convertToGraphData(polls[i].data)
                       /\ error' = NoError
                  ELSE /\ graphData' = graphData
                       /\ error' = FetchError]_vars

\* A poll failed after an earlier one had put blocks on display.
PollOutcomeWitness ==
    /\ lastCompleted = "fail"
    /\ error = FetchError
    /\ graphData # EmptyGraph
    /\ ~loading

\* C10: the result of a poll is never put on display after the result of a
\* poll that was started later.
NeverRegresses == [][shown' >= shown]_vars

====
